---- MODULE Spec2Model ----
(***************************************************************************)
(* Model of the hate-speech detector front end (the richer of the two      *)
(* implementations): the text area, the two triggers, one analyzeText call  *)
(* per accepted submission, the abort timer, the server's possible          *)
(* behaviours and the rendering of the outcome.                             *)
(*                                                                          *)
(* Every action is one browser task together with the microtasks it runs:   *)
(* JavaScript runs a handler and the promise continuations it releases to   *)
(* completion before the next event is dispatched.                          *)
(*                                                                          *)
(* Strings that the code only displays are written without their emoji and  *)
(* HTML wrapper; strings that the code inspects are kept literally.         *)
(***************************************************************************)
EXTENDS Integers, Sequences, FiniteSets, TLC

VARIABLES
    inputValue,   \* DOM.inputText.value
    dom,          \* what the page shows: loader, button, result box, verdict, bars
    calls,        \* the analyzeText calls made so far, in order of submission
    last          \* what the latest task did: alert raised, request issued,
                  \* call completed, body handed to the page, error caught

vars == <<inputValue, dom, calls, last>>

(***************************************************************************)
(* Bounds of the model.                                                     *)
(***************************************************************************)
MaxCalls == 2

(***************************************************************************)
(* CONFIG                                                                   *)
(***************************************************************************)
MAX_INPUT_LENGTH == 2000

(***************************************************************************)
(* Text of the text area.  A string is kept run-length encoded: a sequence  *)
(* of runs, each a character and the number of times it is repeated.        *)
(***************************************************************************)
Run(ch, n) == [ch |-> ch, n |-> n]

\* the values the browser may put in the text area: empty, blank, short,
\* padded, of the maximum length once trimmed, and too long
Texts ==
    {<<>>,
     <<Run(" ", 2)>>,
     <<Run("a", 1)>>,
     <<Run(" ", 1), Run("a", 3), Run(" ", 1)>>,
     <<Run(" ", 1), Run("a", MAX_INPUT_LENGTH)>>,
     <<Run("a", MAX_INPUT_LENGTH), Run("a", 1)>>}

IsWhitespace(ch) == ch = " "

RECURSIVE StrLen(_)
StrLen(s) == IF s = <<>> THEN 0 ELSE Head(s).n + StrLen(Tail(s))

RECURSIVE TrimStart(_)
TrimStart(s) ==
    IF s = <<>> THEN <<>>
    ELSE IF IsWhitespace(Head(s).ch) THEN TrimStart(Tail(s))
    ELSE s

RECURSIVE TrimEnd(_)
TrimEnd(s) ==
    IF s = <<>> THEN <<>>
    ELSE IF IsWhitespace(s[Len(s)].ch) THEN TrimEnd(SubSeq(s, 1, Len(s) - 1))
    ELSE s

Trim(s) == TrimEnd(TrimStart(s))

\* s.substring(0, k)
RECURSIVE Substring0(_, _)
Substring0(s, k) ==
    IF s = <<>> \/ k <= 0 THEN <<>>
    ELSE IF Head(s).n <= k
         THEN <<Head(s)>> \o Substring0(Tail(s), k - Head(s).n)
         ELSE <<[ch |-> Head(s).ch, n |-> k]>>

\* String.prototype.includes on message strings
Includes(s, sub) ==
    \E i \in 1..(Len(s) - Len(sub) + 1) : SubSeq(s, i, i + Len(sub) - 1) = sub

(***************************************************************************)
(* DOM ELEMENTS: the loader, the button, the result box, the verdict and    *)
(* the five category bars.                                                  *)
(***************************************************************************)
Categories == {"hate", "harassment", "self-harm", "sexual", "violence"}

DomKeys == {"hate", "harassment", "selfHarm", "sexual", "violence"}

EmptyBar == [width |-> 0, text |-> "", color |-> "#cbd5e1"]

HarmfulHtml == "Potentially Harmful Content Detected"

SafeHtml == "Content Appears Safe"

showLoader(d, show) == [d EXCEPT !.loader = show]

setButtonState(d, analyzing) ==
    IF analyzing
    THEN [d EXCEPT !.btnDisabled = TRUE, !.btnHtml = "Analyzing..."]
    ELSE [d EXCEPT !.btnDisabled = FALSE, !.btnHtml = "Analyze Text"]

resetUI(d) ==
    [d EXCEPT !.verdictText = "",
              !.resultBox = FALSE,
              !.bars = [k \in DomKeys |-> EmptyBar]]

displayVerdict(d, flagged) ==
    [d EXCEPT !.verdictText = IF flagged THEN HarmfulHtml ELSE SafeHtml]

\* Math.round(score * 100), a score being a number of thousandths
MathRound100(score) == (score * 100 + 500) \div 1000

Max(a, b) == IF a >= b THEN a ELSE b

updateCategoryBar(d, categoryKey, score, flagged) ==
    IF categoryKey \notin DOMAIN d.bars THEN d
    ELSE LET percentage == MathRound100(score)
             pct == ToString(percentage)
         IN [d EXCEPT !.bars[categoryKey] =
                [width |-> Max(percentage, 2),
                 text |-> IF flagged THEN pct \o "% - FLAGGED"
                          ELSE IF percentage > 50 THEN pct \o "% - High Risk"
                          ELSE IF percentage > 20 THEN pct \o "% - Medium"
                          ELSE pct \o "% - Low",
                 color |-> IF flagged THEN "#ef4444"
                           ELSE IF percentage > 50 THEN "#f59e0b"
                           ELSE IF percentage > 20 THEN "#fbbf24"
                           ELSE "#10b981"]]

(***************************************************************************)
(* ERROR HANDLING                                                           *)
(***************************************************************************)
NoError == [name |-> "", message |-> ""]

Error(message) == [name |-> "Error", message |-> message]

TimeoutMsg == "Request timeout. The server took too long to respond. Please try again."

ConnectMsg == "Cannot connect to server. Please check your internet connection."

InvalidFormatMsg == "Invalid response format from server"

TimeoutTip == "\n\nTip: The backend might be sleeping (Render free tier). Please wait 30 seconds and try again."

ConnectTip == "\n\nTip: Check if the backend URL is correct and the server is running."

handleError(d, error) ==
    LET message == "Error: " \o error.message
        shown == IF Includes(error.message, "timeout") THEN message \o TimeoutTip
                 ELSE IF Includes(error.message, "connect") THEN message \o ConnectTip
                 ELSE message
    IN [d EXCEPT !.verdictText = shown, !.resultBox = TRUE]

(***************************************************************************)
(* Response bodies.  A body is not JSON, the JSON value null, or a JSON     *)
(* object; an absent property of an object is a has-flag that is FALSE.     *)
(* Scores are thousandths: 920 is 0.92.                                     *)
(***************************************************************************)
NoScores == [c \in Categories |-> 0]

NoFlags == [c \in Categories |-> FALSE]

ResultItem(hasFlagged, flagged, hasCategories, categories, hasScores, scores) ==
    [hasFlagged |-> hasFlagged, flagged |-> flagged,
     hasCategories |-> hasCategories, categories |-> categories,
     hasScores |-> hasScores, category_scores |-> scores]

JsonObject(hasError, error, hasResults, results) ==
    [kind |-> "object", hasError |-> hasError, error |-> error,
     hasResults |-> hasResults, results |-> results]

NotJsonBody == [JsonObject(FALSE, "", FALSE, <<>>) EXCEPT !.kind = "notjson"]

NullBody == [JsonObject(FALSE, "", FALSE, <<>>) EXCEPT !.kind = "null"]

EmptyObject == JsonObject(FALSE, "", FALSE, <<>>)

\* one category stands out, with its own flag and score; the others score 0.01
WellFormedBody(flagged, hot, hotFlag, hotScore) ==
    JsonObject(FALSE, "", TRUE,
        <<ResultItem(TRUE, flagged,
                     TRUE, [c \in Categories |-> IF c = hot THEN hotFlag ELSE FALSE],
                     TRUE, [c \in Categories |-> IF c = hot THEN hotScore ELSE 10])>>)

\* overall flag, flag of the category that stands out, its score
Verdicts ==
    {<<TRUE, TRUE, 920>>, <<TRUE, FALSE, 4>>, <<FALSE, TRUE, 505>>,
     <<FALSE, FALSE, 205>>, <<FALSE, FALSE, 920>>}

WellFormedBodies ==
    {WellFormedBody(v[1], hot, v[2], v[3]) : v \in Verdicts, hot \in Categories}

SampleFlags == [c \in Categories |-> c = "hate"]

SampleScores == [c \in Categories |-> IF c = "hate" THEN 920 ELSE 10]

\* success-shaped bodies that lack a part of the expected shape
PartialItems ==
    {ResultItem(hf, hf, hc, IF hc THEN SampleFlags ELSE NoFlags,
                hs, IF hs THEN SampleScores ELSE NoScores) :
        <<hf, hc, hs>> \in (BOOLEAN \X BOOLEAN \X BOOLEAN) \ {<<TRUE, TRUE, TRUE>>}}

MalformedBodies ==
    {NullBody, EmptyObject, JsonObject(FALSE, "", TRUE, <<>>)}
    \cup {JsonObject(FALSE, "", TRUE, <<item>>) : item \in PartialItems}

ServerMessages ==
    {"", "Model not loaded", "Failed to fetch upstream model",
     "Gateway timeout", "Database connection lost"}

ErrorBodies == {JsonObject(TRUE, m, FALSE, <<>>) : m \in ServerMessages}

IsWellFormed(data) ==
    /\ data.kind = "object"
    /\ data.hasResults
    /\ data.results # <<>>
    /\ data.results[1].hasFlagged
    /\ data.results[1].hasCategories
    /\ data.results[1].hasScores

Statuses == {200, 404, 500}

ResponseOk(status) == status \in 200..299

\* the bodies a response of this status is given in the model: any shape with
\* a success status; an error object, no JSON, null or {} with an error status
BodiesFor(status) ==
    IF ResponseOk(status)
    THEN {NotJsonBody} \cup MalformedBodies \cup WellFormedBodies
    ELSE {NotJsonBody, NullBody, EmptyObject} \cup ErrorBodies

(***************************************************************************)
(* What the browser reports, which differs from one browser to another:     *)
(* the message of the TypeError of a failed fetch and of the AbortError of  *)
(* an aborted one.                                                          *)
(***************************************************************************)
FetchFailMessages ==
    {"Failed to fetch", "NetworkError when attempting to fetch resource.", "Load failed"}

AbortMessages == {"signal is aborted without reason", "The operation was aborted. "}

UndefinedReadMsg == "Cannot read properties of undefined (reading 'hate')"

NullReadMsg == "Cannot read properties of null (reading 'error')"

JsonSyntaxMsg == "Unexpected token '<', \"<!DOCTYPE \"... is not valid JSON"

(***************************************************************************)
(* RESPONSE PROCESSING                                                      *)
(***************************************************************************)
Returned(d) == [dom |-> d, threw |-> FALSE, error |-> NoError]

Threw(d, error) == [dom |-> d, threw |-> TRUE, error |-> error]

processApiResponse_CopyPaste(d, data) ==
    IF data.kind = "null" \/ ~data.hasResults \/ data.results = <<>>
    THEN Threw(d, Error(InvalidFormatMsg))
    ELSE LET result == data.results[1]
             flagged == result.hasFlagged /\ result.flagged
             categories == result.categories
             scores == result.category_scores
             d0 == displayVerdict(d, flagged)
             d1 == updateCategoryBar(d0, "hate", scores["hate"], categories["hate"])
             d2 == updateCategoryBar(d1, "harassment", scores["harassment"], categories["harassment"])
             d3 == updateCategoryBar(d2, "selfHarm", scores["sexual"], categories["sexual"])
             d4 == updateCategoryBar(d3, "sexual", scores["sexual"], categories["sexual"])
             d5 == updateCategoryBar(d4, "violence", scores["violence"], categories["violence"])
         IN IF ~result.hasScores \/ ~result.hasCategories
            THEN Threw(d0, [name |-> "TypeError", message |-> UndefinedReadMsg])
            ELSE Returned([d5 EXCEPT !.resultBox = TRUE])

processApiResponse(d, data) ==
    IF data.kind = "null" \/ ~data.hasResults \/ data.results = <<>>
    THEN Threw(d, Error(InvalidFormatMsg))
    ELSE LET result == data.results[1]
             flagged == result.hasFlagged /\ result.flagged
             categories == result.categories
             scores == result.category_scores
             d0 == displayVerdict(d, flagged)
             d1 == updateCategoryBar(d0, "hate", scores["hate"], categories["hate"])
             d2 == updateCategoryBar(d1, "harassment", scores["harassment"], categories["harassment"])
             d3 == updateCategoryBar(d2, "selfHarm", scores["self-harm"], categories["self-harm"])
             d4 == updateCategoryBar(d3, "sexual", scores["sexual"], categories["sexual"])
             d5 == updateCategoryBar(d4, "violence", scores["violence"], categories["violence"])
         IN IF ~result.hasScores \/ ~result.hasCategories
            THEN Threw(d0, [name |-> "TypeError", message |-> UndefinedReadMsg])
            ELSE Returned([d5 EXCEPT !.resultBox = TRUE])

(***************************************************************************)
(* API CALL: the branches of analyzeText after the fetch is issued.         *)
(***************************************************************************)
analyzeTextCatch_Rethrow(error) ==
    IF Includes(error.message, "Failed to fetch") THEN Error(ConnectMsg)
    ELSE error

\* the catch block: the error analyzeText throws for a caught error
analyzeTextCatch(error) ==
    IF error.name = "AbortError" THEN Error(TimeoutMsg)
    ELSE IF Includes(error.message, "Failed to fetch") THEN Error(ConnectMsg)
    ELSE error

\* the error thrown inside the try block for a response that is not ok
notOkError(status, body) ==
    IF body.kind = "null" THEN [name |-> "TypeError", message |-> NullReadMsg]
    ELSE IF body.kind = "object" /\ body.hasError /\ body.error # ""
         THEN Error(body.error)
         ELSE Error("Server error: " \o ToString(status))

(***************************************************************************)
(* An analyzeText call: how far the call has got, the abort timer, the      *)
(* response status, and whether the call was aborted or its body processed. *)
(***************************************************************************)
NewCall ==
    [phase |-> "fetching",      \* "fetching": awaiting fetch; "body": awaiting response.json(); "done"
     timer |-> TRUE,            \* the abort timer is armed
     status |-> 0,              \* response.status once the fetch has resolved
     aborted |-> FALSE,         \* controller.abort() has run
     late |-> FALSE,            \* a response reached the transport after the abort
     processed |-> FALSE]       \* a body of this call was passed to processApiResponse

\* a task that raised no alert, issued no request and completed no call
Quiet ==
    [trigger |-> "", alert |-> "", issued |-> FALSE, text |-> <<>>,
     call |-> 0, hasBody |-> FALSE, body |-> EmptyObject, error |-> NoError]

EmptyTextAlert == "Please enter some text to analyze."

TooLongAlert == "Text is too long. Maximum " \o ToString(MAX_INPUT_LENGTH) \o " characters allowed."

InitialDom ==
    [loader |-> FALSE, btnDisabled |-> FALSE, btnHtml |-> "Analyze Text",
     resultBox |-> FALSE, verdictText |-> "", bars |-> [k \in DomKeys |-> EmptyBar]]

\* DOMContentLoaded has run; the text area holds whatever the browser put in it
Init ==
    /\ inputValue \in Texts
    /\ dom = resetUI(InitialDom)
    /\ calls = <<>>
    /\ last = Quiet

(***************************************************************************)
(* EVENT LISTENERS                                                          *)
(***************************************************************************)
\* the "input" listener, after the browser has changed the value to v
InputListener(v) ==
    IF StrLen(v) > MAX_INPUT_LENGTH THEN Substring0(v, MAX_INPUT_LENGTH) ELSE v

InputEvent(v) ==
    /\ inputValue' = InputListener(v)
    /\ last' = Quiet
    /\ UNCHANGED <<dom, calls>>

(***************************************************************************)
(* MAIN ANALYSIS HANDLER, up to the first await                             *)
(***************************************************************************)
SubmittedText_Untrimmed(value) == value

SubmittedText(value) == Trim(value)

TooLong_Unchecked(text) == FALSE

TooLong(text) == StrLen(text) > MAX_INPUT_LENGTH

StartAnalysis(d) == setButtonState(resetUI(showLoader(d, TRUE)), TRUE)

handleAnalyzeClick(trigger) ==
    LET text == SubmittedText(inputValue)
        ran == [Quiet EXCEPT !.trigger = trigger]
    IN /\ UNCHANGED inputValue
       /\ IF text = <<>>
          THEN last' = [ran EXCEPT !.alert = EmptyTextAlert] /\ UNCHANGED <<dom, calls>>
          ELSE IF TooLong(text)
          THEN last' = [ran EXCEPT !.alert = TooLongAlert] /\ UNCHANGED <<dom, calls>>
          ELSE /\ Len(calls) < MaxCalls
               /\ last' = [ran EXCEPT !.issued = TRUE, !.text = text]
               /\ dom' = StartAnalysis(dom)
               /\ calls' = Append(calls, NewCall)

\* a disabled button dispatches no click
ClickAnalyze == ~dom.btnDisabled /\ handleAnalyzeClick("click")

\* keydown in the text area with ctrlKey and key Enter
CtrlEnter == handleAnalyzeClick("ctrlEnter")

(***************************************************************************)
(* MAIN ANALYSIS HANDLER, after the await: try / catch / finally            *)
(***************************************************************************)
Finally(d) == setButtonState(showLoader(d, FALSE), FALSE)

\* analyzeText returned data
OnResolved(d, data) ==
    LET r == processApiResponse(d, data)
    IN [dom |-> Finally(IF r.threw THEN handleError(r.dom, r.error) ELSE r.dom),
        error |-> r.error]

\* analyzeText threw error
OnRejected(d, error) == [dom |-> Finally(handleError(d, error)), error |-> error]

Complete(i, outcome, processed, aborted) ==
    /\ dom' = outcome.dom
    /\ calls' = [calls EXCEPT ![i].phase = "done",
                              ![i].timer = FALSE,
                              ![i].aborted = aborted,
                              ![i].processed = processed]
    /\ last' = [Quiet EXCEPT !.call = i, !.error = outcome.error]

CompleteWithBody(i, outcome, processed, body) ==
    /\ dom' = outcome.dom
    /\ calls' = [calls EXCEPT ![i].phase = "done", ![i].processed = processed]
    /\ last' = [Quiet EXCEPT !.call = i, !.error = outcome.error,
                             !.hasBody = TRUE, !.body = body]

(***************************************************************************)
(* What the network and the timer do to a call.                             *)
(***************************************************************************)
\* the response headers arrive: fetch resolves, clearTimeout
FetchResolves(i, status) ==
    /\ calls[i].phase = "fetching"
    /\ calls' = [calls EXCEPT ![i].phase = "body", ![i].timer = FALSE, ![i].status = status]
    /\ last' = Quiet
    /\ UNCHANGED <<inputValue, dom>>

\* no connection could be made: fetch rejects with a TypeError
FetchRejects(i, message) ==
    /\ calls[i].phase = "fetching"
    /\ Complete(i, OnRejected(dom, analyzeTextCatch([name |-> "TypeError", message |-> message])),
                FALSE, FALSE)
    /\ UNCHANGED inputValue

\* the abort timer fires: controller.abort(), fetch rejects with an AbortError
TimerFires(i, message) ==
    /\ calls[i].timer
    /\ calls[i].phase = "fetching"
    /\ Complete(i, OnRejected(dom, analyzeTextCatch([name |-> "AbortError", message |-> message])),
                FALSE, TRUE)
    /\ UNCHANGED inputValue

\* the body arrives: response.json() settles and analyzeText returns or throws
BodyArrives(i, body) ==
    /\ calls[i].phase = "body"
    /\ IF ~ResponseOk(calls[i].status)
       THEN CompleteWithBody(i, OnRejected(dom, analyzeTextCatch(notOkError(calls[i].status, body))),
                             FALSE, body)
       ELSE IF body.kind = "notjson"
       THEN CompleteWithBody(i, OnRejected(dom, analyzeTextCatch([name |-> "SyntaxError",
                                                                 message |-> JsonSyntaxMsg])),
                             FALSE, body)
       ELSE CompleteWithBody(i, OnResolved(dom, body), TRUE, body)
    /\ UNCHANGED inputValue

\* the server answers a request that was aborted: the transport drops the response
LateResponse(i) ==
    /\ calls[i].aborted
    /\ ~calls[i].late
    /\ calls' = [calls EXCEPT ![i].late = TRUE]
    /\ last' = Quiet
    /\ UNCHANGED <<inputValue, dom>>

Next ==
    \/ \E v \in Texts : InputEvent(v)
    \/ ClickAnalyze
    \/ CtrlEnter
    \/ \E i \in DOMAIN calls, status \in Statuses : FetchResolves(i, status)
    \/ \E i \in DOMAIN calls, message \in FetchFailMessages : FetchRejects(i, message)
    \/ \E i \in DOMAIN calls, message \in AbortMessages : TimerFires(i, message)
    \/ \E i \in DOMAIN calls : \E body \in BodiesFor(calls[i].status) : BodyArrives(i, body)
    \/ \E i \in DOMAIN calls : LateResponse(i)

Spec == Init /\ [][Next]_vars

\* an armed timer fires; nothing obliges the server to send anything
TimerFairness ==
    \A i \in 1..MaxCalls :
        WF_vars(i \in DOMAIN calls /\ \E message \in AbortMessages : TimerFires(i, message))

FairSpec == Spec /\ TimerFairness

(***************************************************************************)
(* Vocabulary of the properties.                                            *)
(***************************************************************************)
IsBlank(s) == \A k \in 1..Len(s) : IsWhitespace(s[k].ch)

Outstanding == {i \in DOMAIN calls : calls[i].phase # "done"}

\* the latest task completed a call
Completed == last.call # 0

\* the latest task handed the body of a response with a success status to the page
GotSuccessBody == Completed /\ last.hasBody /\ ResponseOk(calls[last.call].status)

\* the latest task handed the body of a response with an error status to the page
GotErrorBody == Completed /\ last.hasBody /\ ~ResponseOk(calls[last.call].status)

\* the latest task was the rejection of a fetch that no abort caused
TransportFailed == Completed /\ ~last.hasBody /\ ~calls[last.call].aborted

\* the latest task was the abort timer
TimedOut == Completed /\ calls[last.call].aborted

StartsWith(s, prefix) == Len(s) >= Len(prefix) /\ SubSeq(s, 1, Len(prefix)) = prefix

BarOf(c) == IF c = "self-harm" THEN "selfHarm" ELSE c

NothingRendered ==
    /\ dom.verdictText \notin {HarmfulHtml, SafeHtml}
    /\ \A k \in DomKeys : dom.bars[k] = EmptyBar

\* C1: a call whose fetch gets no response keeps its abort timer armed; when the
\* timer fires the call is cancelled and fails with the timeout error, which is
\* what the page shows; an aborted call never has a body processed, also when
\* the response arrives late.
C1_TimeoutCancelsTheRequest ==
    /\ \A i \in DOMAIN calls :
          /\ calls[i].phase = "fetching" => calls[i].timer
          /\ calls[i].aborted =>
                /\ calls[i].phase = "done"
                /\ calls[i].status = 0
                /\ ~calls[i].processed
    /\ TimedOut =>
          /\ last.error = Error(TimeoutMsg)
          /\ ~last.hasBody
          /\ dom.verdictText = "Error: " \o TimeoutMsg \o TimeoutTip

C1_Witness ==
    \E i \in DOMAIN calls : calls[i].aborted /\ calls[i].late /\ ~calls[i].processed

\* C2: every analysis that was started eventually completes, and a completion
\* leaves the loader hidden and the button enabled.
C2_EveryAnalysisCompletes ==
    /\ \A i \in 1..MaxCalls :
          (i \in DOMAIN calls) ~> (i \in DOMAIN calls /\ calls[i].phase = "done")
    /\ [](Completed => ~dom.loader /\ ~dom.btnDisabled)

\* C3: a success response whose body lacks a part of the expected shape fails
\* with the malformed-response error and renders no verdict and no bar.
C3_MalformedIsRejected ==
    (GotSuccessBody /\ last.body \in MalformedBodies) =>
        /\ last.error = Error(InvalidFormatMsg)
        /\ NothingRendered

\* C4: a response with an error status fails with a server error carrying the
\* server's message if the body has one and "Server error: <status>" otherwise,
\* and is not reported as a timeout or a connectivity error.
C4_ServerErrorIsReported ==
    GotErrorBody =>
        LET body == last.body
            expected == IF body.kind = "object" /\ body.hasError /\ body.error # ""
                        THEN body.error
                        ELSE "Server error: " \o ToString(calls[last.call].status)
        IN /\ last.error = Error(expected)
           /\ dom.verdictText = "Error: " \o expected

\* C5: a trigger, click or Ctrl+Enter, on empty or whitespace-only text raises
\* the validation alert and issues no request.
C5_BlankIsRejected ==
    (last.trigger # "" /\ IsBlank(inputValue)) =>
        /\ last.alert = EmptyTextAlert
        /\ ~last.issued

C5_Witness ==
    /\ last.trigger = "ctrlEnter"
    /\ inputValue # <<>>
    /\ IsBlank(inputValue)
    /\ last.alert = EmptyTextAlert

\* C6: the text of a request that is issued is at most MAX_INPUT_LENGTH long.
C6_RequestTextIsBounded ==
    last.issued => StrLen(last.text) <= MAX_INPUT_LENGTH

C6_Witness ==
    /\ last.trigger # ""
    /\ StrLen(inputValue) > MAX_INPUT_LENGTH
    /\ last.alert = TooLongAlert
    /\ ~last.issued

\* C7: a well-formed success response is rendered as it is: the verdict is the
\* harmful one exactly when results[0].flagged, each category's bar (self-harm
\* on the selfHarm bar) says FLAGGED exactly when the category is flagged and
\* shows the category's score rounded to a percentage, and the result box is
\* visible.
C7_RenderedResultIsTheResponse ==
    (GotSuccessBody /\ IsWellFormed(last.body)) =>
        LET result == last.body.results[1]
        IN /\ last.error = NoError
           /\ dom.verdictText = (IF result.flagged THEN HarmfulHtml ELSE SafeHtml)
           /\ dom.resultBox
           /\ \A c \in Categories :
                 LET bar == dom.bars[BarOf(c)]
                     score == result.category_scores[c]
                 IN /\ Includes(bar.text, "FLAGGED") <=> result.categories[c]
                    /\ \E p \in 0..100 :
                          /\ 10 * p - 5 <= score
                          /\ score < 10 * p + 5
                          /\ StartsWith(bar.text, ToString(p) \o "%")
                          /\ bar.width = Max(p, 2)

C7_Witness ==
    /\ GotSuccessBody
    /\ IsWellFormed(last.body)
    /\ last.body.results[1].flagged
    /\ last.body.results[1].categories["self-harm"]
    /\ last.body.results[1].category_scores["self-harm"] = 920
    /\ dom.bars["selfHarm"].text = "92% - FLAGGED"
    /\ dom.verdictText = HarmfulHtml

\* C8: a transport failure fails with the connectivity error, and the page shows
\* the connectivity message.
C8_TransportFailureIsConnectivity ==
    TransportFailed =>
        /\ last.error = Error(ConnectMsg)
        /\ dom.verdictText = "Error: " \o ConnectMsg \o ConnectTip

\* C9: at most one analysis request is outstanding at any time.
C9_AtMostOneOutstanding == Cardinality(Outstanding) <= 1

\* C10: when a completion leaves no request outstanding, what the page shows was
\* produced by the most recently submitted request.
C10_ShowsTheLastSubmission ==
    (Completed /\ Outstanding = {}) => last.call = Len(calls)

====
